---- MODULE Spec2Model ----
(***************************************************************************)
(* kouhia: a command-line work-hour ledger over one SQLite database.       *)
(* One process invocation runs one command (src/src/main.rs, main).        *)
(* The model keeps the committed database (user_version, hours, undolog),  *)
(* the in-flight transaction of a delete, and the result of the last       *)
(* finished invocation.                                                    *)
(*                                                                         *)
(* Amounts are counted in tenths of an hour.  Spec draws multiples of     *)
(* half an hour: such values are exact both as rust_decimal::Decimal and   *)
(* as the f64 that TOTAL() and row.get::<f64> produce, and "{:.1}" prints  *)
(* them without loss.  SpecF64 draws other tenths and adds them as f64.    *)
(* Dates are day numbers; the hours table keeps their "%Y-%m-%d" text, as  *)
(* a number that orders as the text does (DateText).                       *)
(***************************************************************************)
EXTENDS Integers, Sequences, FiniteSets

(* user_version, hours, undolog : the committed database file            *)
(* tx     : the open transaction of a running delete (its working copy)   *)
(* out    : the running or last finished invocation and what it returned  *)
(* before : history, the committed tables as the last invocation found    *)
(*          them                                                          *)
(* ops    : history, the row_ids each committed delete call wrote to      *)
(*          undolog (the table itself keeps no such grouping)             *)
(* seen   : what a second process read from the file during a delete     *)
(* build  : the run of the build script that emits MIGRATIONS_VERSION     *)
VARIABLES user_version, hours, undolog, tx, out, before, ops, seen, build

vars == <<user_version, hours, undolog, tx, out, before, ops, seen, build>>

(* ------------------------------ bounds -------------------------------- *)

MaxEntries == 2
NumDates == 2
MaxLimit == 2
MaxDepth == 2
MaxSel == 2

Dates == 1..NumDates
TimeInputs == {-10, 0, 15}
Limits == 0..MaxLimit
Depths == 0..MaxDepth
IdInputs == 1..(MaxEntries + 1)

(* ------------------------------- dates -------------------------------- *)

(* the day number of +10000-01-01: from there on "%Y" writes a sign *)
FirstSignedDay == 10

(* date.format("%Y-%m-%d"), as the rank of the text in SQLite's byte      *)
(* order: "+..." sorts below every text that starts with a digit          *)
DateText(d) == IF d >= FirstSignedDay THEN d - 2 * FirstSignedDay ELSE d

(* NaiveDate::parse_from_str(text, DATE_FORMAT) *)
ParseDate(t) == IF t < 0 THEN t + 2 * FirstSignedDay ELSE t

(* the dates SpecRollup adds: an early day, 9999-12-31 and +10000-01-01 *)
RollupDates == {1, FirstSignedDay - 1, FirstSignedDay}

(* --------------------------- schema version --------------------------- *)

MIGRATIONS_VERSION == 2

current_version(uv) ==
    IF uv = 0 THEN [kind |-> "NoneSet", v |-> 0]
    ELSE IF uv <= MIGRATIONS_VERSION THEN [kind |-> "Inside", v |-> uv]
    ELSE [kind |-> "Outside", v |-> uv]

GateOpenMutant(uv) == current_version(uv).kind = "Inside"

GateOpen(uv) == current_version(uv) = [kind |-> "Inside", v |-> MIGRATIONS_VERSION]

(* ------------------------------ helpers ------------------------------- *)

RECURSIVE SumTime(_)
SumTime(rows) ==
    IF rows = <<>> THEN 0 ELSE Head(rows).time + SumTime(Tail(rows))

(* ORDER BY <column> DESC / ASC over rows, column named by field *)
RECURSIVE InsertDesc(_, _, _)
InsertDesc(field, r, sorted) ==
    IF sorted = <<>> THEN <<r>>
    ELSE IF r[field] > Head(sorted)[field] THEN <<r>> \o sorted
    ELSE <<Head(sorted)>> \o InsertDesc(field, r, Tail(sorted))

RECURSIVE OrderByDesc(_, _)
OrderByDesc(field, rows) ==
    IF rows = <<>> THEN <<>>
    ELSE InsertDesc(field, Head(rows), OrderByDesc(field, Tail(rows)))

RECURSIVE InsertAsc(_, _, _)
InsertAsc(field, r, sorted) ==
    IF sorted = <<>> THEN <<r>>
    ELSE IF r[field] < Head(sorted)[field] THEN <<r>> \o sorted
    ELSE <<Head(sorted)>> \o InsertAsc(field, r, Tail(sorted))

RECURSIVE OrderByAsc(_, _)
OrderByAsc(field, rows) ==
    IF rows = <<>> THEN <<>>
    ELSE InsertAsc(field, Head(rows), OrderByAsc(field, Tail(rows)))

Take(rows, n) == SubSeq(rows, 1, IF n < Len(rows) THEN n ELSE Len(rows))

NotDeleted(rows) == SelectSeq(rows, LAMBDA r : ~r.deleted)

NextEntryId(h) ==
    IF h = <<>> THEN 1
    ELSE 1 + (CHOOSE m \in {h[i].entry_id : i \in DOMAIN h} :
                 \A i \in DOMAIN h : h[i].entry_id <= m)

NoTx == [active |-> FALSE, by |-> "none", pending |-> {}, sel |-> {},
         hours |-> <<>>, undolog |-> <<>>]

Result(cmd, result, by, arg, n, rows, value) ==
    [cmd |-> cmd, result |-> result, by |-> by, arg |-> arg, n |-> n,
     rows |-> rows, value |-> value,
     prev |-> IF out.cmd = "add" /\ out.result = "Ok" THEN "add" ELSE "other"]

Snapshot == [hours |-> hours, undolog |-> undolog]

NoSeen == [cmd |-> "none", hours |-> <<>>]

NoBuild == [pc |-> "none", entries |-> <<>>, pos |-> 0,
            latest_migration |-> 0, emitted |-> 0]

(* ------------------------------- Init --------------------------------- *)

InitHours ==
    {<<>>, <<[entry_id |-> 1, date |-> DateText(1), time |-> 15, deleted |-> FALSE]>>}

Init ==
    /\ user_version \in 0..(MIGRATIONS_VERSION + 1)
    /\ hours \in InitHours
    /\ user_version = 0 => hours = <<>>
    /\ undolog = <<>>
    /\ tx = NoTx
    /\ out = [cmd |-> "none", result |-> "Ok", by |-> "none", arg |-> {},
              n |-> 0, rows |-> <<>>, value |-> 0, prev |-> "other"]
    /\ before = [hours |-> hours, undolog |-> undolog]
    /\ ops = <<>>
    /\ seen = NoSeen
    /\ build = NoBuild

(* ------------------------------ commands ------------------------------ *)

(* main, lines 334-336: the command is refused, nothing is opened for write *)
SchemaMismatch(cmd, by, arg, n) ==
    /\ out' = Result(cmd, "SchemaMismatch", by, arg, n, <<>>, 0)
    /\ before' = Snapshot
    /\ UNCHANGED <<user_version, hours, undolog, tx, ops, seen, build>>

(* MIGRATIONS.to_latest(conn), line 132: runs the pending migrations; a   *)
(* database already at the latest version is left alone, one ahead of    *)
(* every known migration is an error                                      *)
to_latest_strict(uv) ==
    IF uv < MIGRATIONS_VERSION
    THEN [version |-> MIGRATIONS_VERSION, result |-> "Ok"]
    ELSE [version |-> uv, result |-> "MigrationError"]

to_latest(uv) ==
    IF uv <= MIGRATIONS_VERSION
    THEN [version |-> MIGRATIONS_VERSION, result |-> "Ok"]
    ELSE [version |-> uv, result |-> "MigrationError"]

Migrate ==
    /\ ~tx.active
    /\ user_version' = to_latest(user_version).version
    /\ out' = Result("migrate", to_latest(user_version).result, "none", {}, 0,
                     <<>>, 0)
    /\ before' = Snapshot
    /\ UNCHANGED <<hours, undolog, tx, ops, seen, build>>

Schema ==
    /\ ~tx.active
    /\ out' = Result("schema", "Ok", "none", {}, 0,
                     <<current_version(user_version), MIGRATIONS_VERSION>>, 0)
    /\ before' = Snapshot
    /\ UNCHANGED <<user_version, hours, undolog, tx, ops, seen, build>>

(* parse_non_zero, lines 46-52: the value parser of the add argument *)
parse_any(d) == TRUE

parse_non_zero(d) == d # 0

(* INSERT INTO hours (date, time, deleted) VALUES (?1, ?2, 0), line 163 *)
InsertHoursDeleted(h, date, time) ==
    Append(h, [entry_id |-> NextEntryId(h), date |-> DateText(date), time |-> time,
               deleted |-> TRUE])

InsertHours(h, date, time) ==
    Append(h, [entry_id |-> NextEntryId(h), date |-> DateText(date), time |-> time,
               deleted |-> FALSE])

Add(date, time) ==
    /\ ~tx.active
    /\ IF ~parse_non_zero(time)
       THEN /\ out' = Result("cli", "InvalidAmount", "none", {}, 0, <<>>, 0)
            /\ before' = Snapshot
            /\ UNCHANGED <<user_version, hours, undolog, tx, ops, seen, build>>
       ELSE IF ~GateOpen(user_version)
       THEN SchemaMismatch("add", "none", {}, 0)
       ELSE /\ Len(hours) < MaxEntries
            /\ hours' = InsertHours(hours, date, time)
            /\ out' = Result("add", "Ok", "none", {}, 0, <<>>, 0)
            /\ before' = Snapshot
            /\ UNCHANGED <<user_version, undolog, tx, ops, seen, build>>

(* SELECT entry_id, date, time ... WHERE deleted = 0 ORDER BY entry_id DESC LIMIT n *)
TailEntryQueryMutant(h, n) ==
    LET sorted == OrderByDesc("entry_id", h)
    IN  [i \in 1..Len(Take(sorted, n)) |->
            <<sorted[i].entry_id, sorted[i].date, sorted[i].time>>]

TailEntryQueryAsc(h, n) ==
    LET sorted == OrderByAsc("entry_id", NotDeleted(h))
    IN  [i \in 1..Len(Take(sorted, n)) |->
            <<sorted[i].entry_id, sorted[i].date, sorted[i].time>>]

TailEntryQuery(h, n) ==
    LET sorted == OrderByDesc("entry_id", NotDeleted(h))
    IN  [i \in 1..Len(Take(sorted, n)) |->
            <<sorted[i].entry_id, sorted[i].date, sorted[i].time>>]

(* SELECT date, time FROM hours WHERE deleted = 0 ORDER BY date DESC *)
TailDateQuery(h) ==
    OrderByDesc("date", NotDeleted(h))

(* the while loop of tail_date, lines 210-228; a bucket is printed as     *)
(* date.format(DATE_FORMAT) and time_sum                                  *)
RECURSIVE TailDateLoop(_, _, _, _, _, _)
TailDateLoop(rows, date, time_sum, count, printed, n) ==
    IF rows = <<>> THEN Append(printed, <<DateText(date), time_sum>>)
    ELSE LET row == Head(rows)
             next_date == ParseDate(row.date)
         IN
         IF next_date = date
         THEN TailDateLoop(Tail(rows), date, time_sum + row.time, count,
                           printed, n)
         ELSE IF count + 1 > n
         THEN Append(printed, <<DateText(date), time_sum>>)
         ELSE TailDateLoop(Tail(rows), next_date, row.time, count + 1,
                           Append(printed, <<DateText(date), time_sum>>), n)

tail_date(h, n) ==
    LET rows == TailDateQuery(h) IN
    IF rows = <<>> THEN <<>>
    ELSE TailDateLoop(Tail(rows), ParseDate(rows[1].date), rows[1].time, 1,
                      <<>>, n)

TailEntry(n) ==
    /\ ~tx.active
    /\ IF ~GateOpen(user_version)
       THEN SchemaMismatch("tail", "entry", {}, n)
       ELSE /\ out' = Result("tail", "Ok", "entry", {}, n,
                             TailEntryQuery(hours, n), 0)
            /\ before' = Snapshot
            /\ UNCHANGED <<user_version, hours, undolog, tx, ops, seen, build>>

TailDate(n) ==
    /\ ~tx.active
    /\ IF ~GateOpen(user_version)
       THEN SchemaMismatch("tail", "date", {}, n)
       ELSE /\ out' = Result("tail", "Ok", "date", {}, n, tail_date(hours, n), 0)
            /\ before' = Snapshot
            /\ UNCHANGED <<user_version, hours, undolog, tx, ops, seen, build>>

(* SELECT TOTAL(time) FROM hours WHERE deleted = 0 *)
BalanceQueryMutant(h) == SumTime(h)

BalanceQuery(h) == SumTime(NotDeleted(h))

Balance ==
    /\ ~tx.active
    /\ IF ~GateOpen(user_version)
       THEN SchemaMismatch("balance", "none", {}, 0)
       ELSE /\ out' = Result("balance", "Ok", "none", {}, 0, <<>>,
                             BalanceQuery(hours))
            /\ before' = Snapshot
            /\ UNCHANGED <<user_version, hours, undolog, tx, ops, seen, build>>

(* main, line 338: the SQL function not_undo() of this connection *)
not_undo_mutant(cmd) == cmd = "undo"

not_undo(cmd) == cmd # "undo"

(* The undo-log trigger of the hours table (migrations): one record per   *)
(* row whose deleted flag an UPDATE actually changes, while not_undo().   *)
UndoLogTrigger(log, old, new, nu) ==
    IF nu /\ old.deleted # new.deleted
    THEN Append(log, [row_id |-> Len(log) + 1, entry_id |-> old.entry_id,
                      deleted_old |-> old.deleted, processed |-> FALSE])
    ELSE log

(* SET deleted = 1, lines 252 and 264 *)
SetDeletedToggle(old) == [old EXCEPT !.deleted = ~old.deleted]

SetDeleted(old) == [old EXCEPT !.deleted = TRUE]

(* UPDATE hours SET deleted = 1 WHERE <column> = ?1, rows i..Len in table order *)
RECURSIVE UpdateDeleted(_, _, _, _, _)
UpdateDeleted(db, column, value, nu, i) ==
    IF i > Len(db.hours) THEN db
    ELSE IF db.hours[i][column] = value
    THEN LET old == db.hours[i]
             new == SetDeleted(old)
         IN  UpdateDeleted(
                 [hours |-> [db.hours EXCEPT ![i] = new],
                  undolog |-> UndoLogTrigger(db.undolog, old, new, nu)],
                 column, value, nu, i + 1)
    ELSE UpdateDeleted(db, column, value, nu, i + 1)

(* delete_entry, line 252 and 254 *)
UpdateByIdMutant(db, id, nu) == UpdateDeleted(db, "date", id, nu, 1)

UpdateById(db, id, nu) == UpdateDeleted(db, "entry_id", id, nu, 1)

(* delete_date, line 264 and 266 *)
UpdateByDateNoWhere(db, d, nu) == UpdateDeleted(db, "deleted", FALSE, nu, 1)

UpdateByDate(db, d, nu) == UpdateDeleted(db, "date", DateText(d), nu, 1)

(* what is left of a transaction that is dropped without commit *)
RollbackMutant(committed, working) == working

Rollback(committed, working) == committed

Selectors(S) == {sel \in SUBSET S : sel # {} /\ Cardinality(sel) <= MaxSel}

(* delete: gate, then conn.transaction() and tx.prepare(), lines 250-252 / 262-264 *)
DeleteBegin(by, sel) ==
    /\ ~tx.active
    /\ IF ~GateOpen(user_version)
       THEN SchemaMismatch("delete", by, sel, 0)
       ELSE /\ tx' = [active |-> TRUE, by |-> by, pending |-> sel, sel |-> sel,
                      hours |-> hours, undolog |-> undolog]
            /\ out' = Result("delete", "Running", by, sel, 0, <<>>, 0)
            /\ before' = Snapshot
            /\ UNCHANGED <<user_version, hours, undolog, ops, seen, build>>

DeleteEntry(ids) == DeleteBegin("entry", ids)

DeleteDate(dates) == DeleteBegin("date", dates)

(* one statement.execute of the for loop; a HashSet is walked in any order *)
DeleteExec ==
    /\ tx.active
    /\ \E x \in tx.pending :
         LET db == [hours |-> tx.hours, undolog |-> tx.undolog]
             res == IF tx.by = "entry"
                    THEN UpdateById(db, x, not_undo("delete"))
                    ELSE UpdateByDate(db, x, not_undo("delete"))
         IN  tx' = [tx EXCEPT !.pending = tx.pending \ {x},
                              !.hours = res.hours, !.undolog = res.undolog]
    /\ UNCHANGED <<user_version, hours, undolog, out, before, ops, seen, build>>

(* statement.execute(..)? or tx.commit()? returns the error: tx is dropped *)
DeleteAbort ==
    LET db == Rollback(Snapshot, [hours |-> tx.hours, undolog |-> tx.undolog])
    IN  /\ hours' = db.hours
        /\ undolog' = db.undolog
        /\ tx' = NoTx
        /\ out' = [out EXCEPT !.result = "StorageError"]
        /\ before' = Snapshot
        /\ seen' = NoSeen
        /\ UNCHANGED <<user_version, ops, build>>

DeleteExecFail ==
    /\ tx.active
    /\ tx.pending # {}
    /\ DeleteAbort

DeleteCommitFail ==
    /\ tx.active
    /\ tx.pending = {}
    /\ DeleteAbort

NewRecords(log) == {log[i].row_id : i \in (Len(undolog) + 1)..Len(log)}

(* tx.commit() succeeds, line 257 / 269 *)
DeleteCommit ==
    /\ tx.active
    /\ tx.pending = {}
    /\ hours' = tx.hours
    /\ undolog' = tx.undolog
    /\ ops' = IF NewRecords(tx.undolog) = {} THEN ops
              ELSE Append(ops, NewRecords(tx.undolog))
    /\ tx' = NoTx
    /\ out' = [out EXCEPT !.result = "Ok"]
    /\ before' = Snapshot
    /\ seen' = NoSeen
    /\ UNCHANGED <<user_version, build>>

(* undo, lines 294-319: reads the log, keeps first_found, writes nothing *)
RECURSIVE UndoScan(_, _)
UndoScan(rows, first_found) ==
    IF rows = <<>> THEN first_found
    ELSE UndoScan(Tail(rows), IF Head(rows).processed = FALSE THEN TRUE
                               ELSE first_found)

undo(db, depth) ==
    LET rows == OrderByAsc("row_id", db.undolog)
        first_found == UndoScan(rows, FALSE)
    IN  [db |-> db, result |-> "Ok"]

Undo(depth) ==
    /\ ~tx.active
    /\ IF ~GateOpen(user_version)
       THEN SchemaMismatch("undo", "none", {}, depth)
       ELSE LET res == undo(Snapshot, depth) IN
            /\ hours' = res.db.hours
            /\ undolog' = res.db.undolog
            /\ out' = Result("undo", res.result, "none", {}, depth, <<>>, 0)
            /\ before' = Snapshot
            /\ UNCHANGED <<user_version, tx, ops, seen, build>>

Next ==
    \/ Migrate
    \/ Schema
    \/ \E date \in Dates, time \in TimeInputs : Add(date, time)
    \/ \E n \in Limits : TailEntry(n)
    \/ \E n \in Limits : TailDate(n)
    \/ Balance
    \/ \E ids \in Selectors(IdInputs) : DeleteEntry(ids)
    \/ \E dates \in Selectors(Dates) : DeleteDate(dates)
    \/ DeleteExec
    \/ DeleteExecFail
    \/ DeleteCommit
    \/ DeleteCommitFail
    \/ \E depth \in Depths : Undo(depth)

Spec == Init /\ [][Next]_vars

(* ------------------------- properties, C1..C10 ------------------------ *)

GatedCommands == {"add", "delete", "tail", "balance", "undo"}

(* C1: while the persisted schema version is unset, outside the known     *)
(* range, or a known version other than the latest, each of add, delete,  *)
(* tail, balance and undo ends with the schema-mismatch error and leaves  *)
(* hours and undolog as they were; migrate and schema are not refused.    *)
SchemaGate ==
    [][user_version # MIGRATIONS_VERSION =>
         /\ out'.cmd \in GatedCommands =>
               /\ out'.result = "SchemaMismatch"
               /\ hours' = hours
               /\ undolog' = undolog
         /\ out'.cmd \in {"migrate", "schema"} =>
               out'.result # "SchemaMismatch"]_vars

SchemaGateWitness ==
    /\ out.cmd = "delete"
    /\ out.result = "SchemaMismatch"
    /\ current_version(user_version).kind = "Outside"
    /\ hours # <<>>

RECURSIVE SumOver(_, _)
SumOver(h, I) ==
    IF I = {} THEN 0
    ELSE LET i == CHOOSE j \in I : TRUE IN h[i].time + SumOver(h, I \ {i})

Live(h) == {i \in DOMAIN h : ~h[i].deleted}

(* C2: the value balance reports is the sum of time over exactly the      *)
(* entries whose deleted flag is false, and 0 when there is none.         *)
BalanceIsLiveSum ==
    (out.cmd = "balance" /\ out.result = "Ok") =>
        /\ out.value = SumOver(hours, Live(hours))
        /\ Live(hours) = {} => out.value = 0

BalanceIsLiveSumWitness ==
    /\ out.cmd = "balance"
    /\ out.result = "Ok"
    /\ Live(hours) # {}
    /\ \E i \in DOMAIN hours : hours[i].deleted

(* C3: a delete by id issued right after an add, naming the new entry,    *)
(* takes the entry's time out of the balance and the entry out of every   *)
(* tail listing, and the row stays in hours with deleted = TRUE and the   *)
(* same entry_id, date and time.                                          *)
AddThenDelete ==
    [][(/\ out.cmd = "delete" /\ out.result = "Running" /\ out.prev = "add"
        /\ out'.cmd = "delete" /\ out'.result = "Ok" /\ out'.by = "entry"
        /\ hours # <<>>
        /\ hours[Len(hours)].entry_id \in out'.arg) =>
         LET e == hours[Len(hours)] IN
         /\ out'.arg = {e.entry_id} =>
               BalanceQuery(hours') = BalanceQuery(hours) - e.time
         /\ \A n \in Limits :
               \A i \in DOMAIN TailEntryQuery(hours', n) :
                  TailEntryQuery(hours', n)[i][1] # e.entry_id
         /\ \E i \in DOMAIN hours' : hours'[i] = [e EXCEPT !.deleted = TRUE]
         /\ Len(hours') = Len(hours)]_vars

AddThenDeleteWitness ==
    /\ out.cmd = "delete" /\ out.result = "Ok" /\ out.by = "entry"
    /\ out.prev = "add"
    /\ before.hours # <<>>
    /\ LET e == before.hours[Len(before.hours)] IN
       /\ e.entry_id \in out.arg
       /\ ~e.deleted
       /\ hours[Len(before.hours)] = [e EXCEPT !.deleted = TRUE]
    /\ Len(hours) = MaxEntries

(* C4: undo(1) right after a delete by id that changed at least one entry *)
(* brings the balance back to its value before that delete.               *)
UndoRestoresBalance ==
    [][(/\ out.cmd = "delete" /\ out.result = "Ok" /\ out.by = "entry"
        /\ before.hours # hours
        /\ out'.cmd = "undo" /\ out'.n = 1
        /\ out'.result # "SchemaMismatch") =>
         BalanceQuery(hours') = BalanceQuery(before.hours)]_vars

(* the logical operations of the undo log that are not yet processed *)
UnprocessedOps ==
    {k \in DOMAIN ops : \E r \in ops[k] : ~undolog[r].processed}

(* C5: undo(depth) with depth above the number of unprocessed logical     *)
(* operations changes neither hours nor undolog and reports NothingToUndo.*)
UndoTooDeep ==
    [][(/\ out'.cmd = "undo"
        /\ out'.result # "SchemaMismatch"
        /\ out'.n > Cardinality(UnprocessedOps)) =>
         /\ hours' = hours
         /\ undolog' = undolog
         /\ out'.result = "NothingToUndo"]_vars

(* C6: undo(1) right after a delete that changed several entries gives    *)
(* every one of them its former deleted flag and marks every undo record  *)
(* of that delete processed: the delete is reversed as one unit.          *)
UndoReversesGroup ==
    [][(/\ out.cmd = "delete" /\ out.result = "Ok"
        /\ before.hours # hours
        /\ out'.cmd = "undo" /\ out'.n = 1
        /\ out'.result # "SchemaMismatch") =>
         /\ hours' = before.hours
         /\ Len(undolog') = Len(undolog)
         /\ \A r \in ops[Len(ops)] : undolog'[r].processed]_vars

Selected(r, by, sel) ==
    IF by = "entry" THEN r.entry_id \in sel ELSE ParseDate(r.date) \in sel

(* C7: a delete by ids or by dates that ends in an error leaves every     *)
(* deleted flag (and the undo log) as before the call; one that succeeds  *)
(* leaves every selected entry deleted.                                   *)
DeleteAllOrNothing ==
    [][(tx.active /\ ~tx'.active) =>
         /\ out'.cmd = "delete"
         /\ out'.result # "Ok" => (hours' = hours /\ undolog' = undolog)
         /\ out'.result = "Ok" =>
               /\ Len(hours') = Len(hours)
               /\ \A i \in DOMAIN hours :
                     Selected(hours[i], tx.by, tx.sel) => hours'[i].deleted]_vars

DeleteAllOrNothingWitness ==
    /\ out.cmd = "delete"
    /\ out.result = "StorageError"
    /\ Cardinality(out.arg) >= 2
    /\ Cardinality({i \in Live(hours) :
                       Selected(hours[i], out.by, out.arg)}) >= 2

NoLiveEntry(h, id) == \A i \in DOMAIN h : h[i].entry_id = id => h[i].deleted

(* C8: a delete by ids does nothing for an id that names no entry or an   *)
(* already deleted one: no row with that id changes and no undo record    *)
(* for it is appended, and when every id is of that kind the call is a    *)
(* successful no-op (short of a storage failure).                         *)
DeleteMissIsNoOp ==
    [][(tx.active /\ ~tx'.active /\ tx.by = "entry") =>
         /\ \A id \in tx.sel : NoLiveEntry(hours, id) =>
               /\ \A i \in DOMAIN hours :
                     hours[i].entry_id = id => hours'[i] = hours[i]
               /\ \A k \in (Len(undolog) + 1)..Len(undolog') :
                     undolog'[k].entry_id # id
         /\ (\A id \in tx.sel : NoLiveEntry(hours, id)) =>
               /\ out'.result \in {"Ok", "StorageError"}
               /\ hours' = hours
               /\ undolog' = undolog]_vars

DeleteMissIsNoOpWitness ==
    /\ out.cmd = "delete" /\ out.result = "Ok" /\ out.by = "entry"
    /\ before = Snapshot
    /\ \E id \in out.arg : \E i \in DOMAIN hours : hours[i].entry_id = id
    /\ \E id \in out.arg : \A i \in DOMAIN hours : hours[i].entry_id # id
    /\ Live(hours) # {}

(* C9: every committed step keeps hours and undolog in step: an entry     *)
(* whose deleted flag changes gets exactly one new undo record, carrying  *)
(* its entry_id and the flag's former value, and no record is appended    *)
(* for an entry whose flag did not change; old records stay as they are.  *)
UndoLogInSync ==
    [][/\ Len(undolog') >= Len(undolog)
       /\ SubSeq(undolog', 1, Len(undolog)) = undolog
       /\ Len(hours') >= Len(hours)
       /\ \A k \in (Len(undolog) + 1)..Len(undolog') :
             \E i \in DOMAIN hours : hours[i].entry_id = undolog'[k].entry_id
       /\ \A i \in DOMAIN hours :
             LET new == {k \in (Len(undolog) + 1)..Len(undolog') :
                            undolog'[k].entry_id = hours[i].entry_id}
             IN  IF hours'[i].deleted # hours[i].deleted
                 THEN /\ Cardinality(new) = 1
                      /\ \A k \in new : undolog'[k].deleted_old = hours[i].deleted
                 ELSE new = {}]_vars

UndoLogInSyncWitness ==
    /\ out.cmd = "delete" /\ out.result = "Ok"
    /\ Len(undolog) = Len(before.undolog) + 2
    /\ \A i \in DOMAIN hours : hours[i].deleted /\ ~before.hours[i].deleted

LiveDates(h) == {h[i].date : i \in Live(h)}

RECURSIVE ExpectedRollup(_, _, _)
ExpectedRollup(h, dates, limit) ==
    IF limit = 0 \/ dates = {} THEN <<>>
    ELSE LET d == CHOOSE x \in dates : \A y \in dates : y <= x
         IN  <<<<d, SumOver(h, {i \in Live(h) : h[i].date = d})>>>>
             \o ExpectedRollup(h, dates \ {d}, limit - 1)

(* C10: tail by date with limit n prints exactly min(n, D) buckets, D the *)
(* number of distinct dates of non-deleted entries: the latest dates in   *)
(* descending order, each with the sum of its non-deleted entries; also   *)
(* for n = 0 (nothing printed) and n >= D.                                *)
RollupBuckets ==
    (out.cmd = "tail" /\ out.by = "date" /\ out.result = "Ok") =>
        out.rows = ExpectedRollup(hours, LiveDates(hours), out.n)

(* ------------------------ properties, C11..C20 ------------------------ *)

(* an up-to-date, empty database *)
InitLatest ==
    /\ user_version = MIGRATIONS_VERSION
    /\ hours = <<>>
    /\ undolog = <<>>
    /\ tx = NoTx
    /\ out = [cmd |-> "none", result |-> "Ok", by |-> "none", arg |-> {},
              n |-> 0, rows |-> <<>>, value |-> 0, prev |-> "other"]
    /\ before = [hours |-> <<>>, undolog |-> <<>>]
    /\ ops = <<>>
    /\ seen = NoSeen
    /\ build = NoBuild

(* add and tail by date over dates on both sides of year 10000 *)
NextRollup ==
    \/ \E date \in RollupDates, time \in TimeInputs : Add(date, time)
    \/ \E n \in Limits : TailDate(n)

SpecRollup == InitLatest /\ [][NextRollup]_vars

(* C11: whatever the store holds and whatever the limit, the buckets tail *)
(* by date prints carry no date twice and their dates descend strictly    *)
(* from the first bucket to the last.                                     *)
RollupStrictlyDescending ==
    (out.cmd = "tail" /\ out.by = "date" /\ out.result = "Ok") =>
        \A i, j \in DOMAIN out.rows :
            i < j => ParseDate(out.rows[i][1]) > ParseDate(out.rows[j][1])

(* C12: tail by entry with limit n lists exactly min(n, number of         *)
(* non-deleted entries) rows: non-deleted entries only, those with the    *)
(* highest entry_ids, in strictly descending entry_id order.              *)
ListRecent ==
    (out.cmd = "tail" /\ out.by = "entry" /\ out.result = "Ok") =>
        LET rows == out.rows
            ids == {rows[i][1] : i \in DOMAIN rows}
            live == Cardinality(Live(hours))
        IN  /\ Len(rows) = IF out.n < live THEN out.n ELSE live
            /\ \A i, j \in DOMAIN rows : i < j => rows[i][1] > rows[j][1]
            /\ \A i \in DOMAIN rows :
                  \E k \in Live(hours) :
                     rows[i] = <<hours[k].entry_id, hours[k].date, hours[k].time>>
            /\ \A k \in Live(hours) :
                  hours[k].entry_id \notin ids =>
                     \A i \in DOMAIN rows : rows[i][1] > hours[k].entry_id

ListRecentWitness ==
    /\ out.cmd = "tail" /\ out.by = "entry" /\ out.result = "Ok"
    /\ out.n >= 1
    /\ Len(out.rows) = out.n
    /\ Cardinality(Live(hours)) > out.n

(* C13: migrate run on a database that is already at the latest version   *)
(* (as it is after a first migrate) succeeds and leaves the schema        *)
(* version, the entries and the undo log exactly as they were.            *)
MigrateIdempotent ==
    [][(user_version = MIGRATIONS_VERSION /\ out'.cmd = "migrate") =>
         /\ out'.result = "Ok"
         /\ user_version' = user_version
         /\ hours' = hours
         /\ undolog' = undolog]_vars

MigrateIdempotentWitness ==
    /\ out.cmd = "migrate"
    /\ out.result = "Ok"
    /\ user_version = MIGRATIONS_VERSION
    /\ undolog # <<>>
    /\ Live(hours) # {}

(* C14: no step removes an entry or changes the entry_id, date or time of *)
(* an existing one; the table grows only by add, one row at a time, and   *)
(* the new row is not deleted and has an entry_id above every existing    *)
(* one, so no entry_id is used twice.                                     *)
EntriesOnlyGrow ==
    [][/\ Len(hours') >= Len(hours)
       /\ \A i \in DOMAIN hours :
             /\ hours'[i].entry_id = hours[i].entry_id
             /\ hours'[i].date = hours[i].date
             /\ hours'[i].time = hours[i].time
       /\ Len(hours') > Len(hours) =>
             /\ Len(hours') = Len(hours) + 1
             /\ out'.cmd = "add"
             /\ ~hours'[Len(hours')].deleted
             /\ \A i \in DOMAIN hours :
                   hours'[Len(hours')].entry_id > hours[i].entry_id]_vars

EntriesOnlyGrowWitness ==
    /\ out.cmd = "add" /\ out.result = "Ok"
    /\ Len(hours) = Len(before.hours) + 1
    /\ \E i \in DOMAIN before.hours : before.hours[i].deleted
    /\ undolog # <<>>

(* C15: an add of amount zero ends with the invalid-amount error and      *)
(* writes nothing: hours and undolog are as before, and no step ever      *)
(* leaves an entry with time 0 in the table.                              *)
ZeroAmountRejected ==
    [][/\ (\E date \in Dates : Add(date, 0)) =>
             /\ out'.result = "InvalidAmount"
             /\ hours' = hours
             /\ undolog' = undolog
       /\ out'.result = "InvalidAmount" => (hours' = hours /\ undolog' = undolog)
       /\ \A i \in DOMAIN hours' : hours'[i].time # 0]_vars

ZeroAmountRejectedWitness ==
    /\ out.cmd = "cli"
    /\ out.result = "InvalidAmount"
    /\ GateOpen(user_version)
    /\ Live(hours) # {}
    /\ Len(hours) < MaxEntries

(* ------------------------------ f64 ----------------------------------- *)
(* A finite f64 that is zero or positive and normal: m is the significand *)
(* as MantissaBits bits, most significant first (m[1] = 1), and the value *)
(* is m * 2^e; zero has the empty significand.                            *)

MantissaBits == 53

F64Zero == [m |-> <<>>, e |-> 0]

Zeros(n) == [i \in 1..n |-> 0]

(* a + b of two bit strings of one length, with the carry bit in front:   *)
(* the carry into place i comes from a lower place j where both bits are  *)
(* 1, through places that each hold one 1                                 *)
CarryInto(a, b, i) ==
    \E j \in (i + 1)..Len(a) :
        /\ a[j] = 1 /\ b[j] = 1
        /\ \A k \in (i + 1)..(j - 1) : a[k] + b[k] = 1

AddBits(a, b) ==
    [i \in 1..(Len(a) + 1) |->
        IF i = 1 THEN (IF CarryInto(a, b, 0) THEN 1 ELSE 0)
        ELSE (a[i - 1] + b[i - 1] + (IF CarryInto(a, b, i - 1) THEN 1 ELSE 0)) % 2]

RECURSIVE StripZeros(_)
StripZeros(bits) ==
    IF bits # <<>> /\ Head(bits) = 0 THEN StripZeros(Tail(bits)) ELSE bits

AnyOne(bits) == \E i \in DOMAIN bits : bits[i] = 1

(* round to nearest, ties to even: bits (first bit 1, at least            *)
(* MantissaBits long) with unit 2^e, and sticky for what lies below them  *)
RoundF64(bits, e, sticky) ==
    LET len == Len(bits)
        keep == SubSeq(bits, 1, MantissaBits)
        rest == SubSeq(bits, MantissaBits + 1, len)
        round == rest # <<>> /\ rest[1] = 1
        below == sticky \/ (Len(rest) > 1 /\ AnyOne(Tail(rest)))
        up == round /\ (below \/ keep[MantissaBits] = 1)
        inc == IF up
               THEN AddBits(keep, Zeros(MantissaBits - 1) \o <<1>>)
               ELSE <<0>> \o keep
        e_keep == e + (len - MantissaBits)
    IN  IF inc[1] = 1
        THEN [m |-> SubSeq(inc, 1, MantissaBits), e |-> e_keep + 1]
        ELSE [m |-> Tail(inc), e |-> e_keep]

(* x + y in f64 *)
AddF64(x, y) ==
    IF x.m = <<>> THEN y
    ELSE IF y.m = <<>> THEN x
    ELSE LET hi == IF x.e >= y.e THEN x ELSE y
             lo == IF x.e >= y.e THEN y ELSE x
             diff == hi.e - lo.e
             himant == hi.m \o Zeros(diff)
             lomant == Zeros(diff) \o lo.m
         IN  RoundF64(StripZeros(AddBits(himant, lomant)), lo.e, FALSE)

(* 2^i modulo den *)
RECURSIVE Pow2Mod(_, _)
Pow2Mod(i, den) == IF i = 0 THEN 1 % den ELSE (2 * Pow2Mod(i - 1, den)) % den

(* rem / den in [0, 1): its first cnt binary digits, then the remainder *)
DivBits(rem, den, cnt) ==
    [bits |-> [i \in 1..cnt |->
                  IF 2 * ((rem * Pow2Mod(i - 1, den)) % den) >= den THEN 1 ELSE 0],
     rem |-> (rem * Pow2Mod(cnt, den)) % den]

(* scale num / den into [1, 2), counting the binary exponent k *)
RECURSIVE Normalize(_, _, _)
Normalize(num, den, k) ==
    IF num < den THEN Normalize(2 * num, den, k - 1)
    ELSE IF num >= 2 * den THEN Normalize(num, 2 * den, k + 1)
    ELSE [num |-> num, den |-> den, k |-> k]

(* the REAL that SQLite reads from the decimal text of t tenths, t >= 0:  *)
(* the f64 nearest to t / 10                                              *)
DecimalToF64(t) ==
    IF t = 0 THEN F64Zero
    ELSE LET nz == Normalize(t, 10, 0)
             d == DivBits(nz.num - nz.den, nz.den, MantissaBits)
         IN  RoundF64(<<1>> \o d.bits, nz.k - MantissaBits, d.rem # 0)

(* SELECT TOTAL(time) FROM hours WHERE deleted = 0, as the f64 it is *)
RECURSIVE TotalF64(_, _)
TotalF64(rows, acc) ==
    IF rows = <<>> THEN acc
    ELSE TotalF64(Tail(rows), AddF64(acc, DecimalToF64(Head(rows).time)))

BalanceF64Query(h) == TotalF64(NotDeleted(h), F64Zero)

(* balance, lines 241-247, with the total kept as the f64 it is *)
BalanceF64 ==
    /\ ~tx.active
    /\ IF ~GateOpen(user_version)
       THEN SchemaMismatch("balance", "none", {}, 0)
       ELSE /\ out' = Result("balance", "Ok", "none", {}, 0, <<>>,
                             BalanceF64Query(hours))
            /\ before' = Snapshot
            /\ UNCHANGED <<user_version, hours, undolog, tx, ops, seen, build>>

(* amounts of 0.1, 0.2 and 0.3 hours *)
TenthInputs == {1, 2, 3}

NextF64 ==
    \/ \E date \in Dates, time \in TenthInputs : Add(date, time)
    \/ BalanceF64

SpecF64 == InitLatest /\ [][NextF64]_vars

(* C16: after any sequence of adds, the balance computed is the exact     *)
(* decimal sum of the amounts added: the value balance holds before it    *)
(* is printed is the one the exact sum has, without floating-point drift. *)
BalanceExactDecimal ==
    (out.cmd = "balance" /\ out.result = "Ok") =>
        out.value = DecimalToF64(SumOver(hours, Live(hours)))

(* ------------------- C17: a second process on the database ------------ *)

(* what another connection reads while the transaction opened at line 250 *)
(* or 262 has not committed                                               *)
ReadUncommitted(committed, working) == working

ReadCommitted(committed, working) == committed

OtherRead(cmd) ==
    /\ tx.active
    /\ seen' = [cmd |-> cmd, hours |-> ReadCommitted(hours, tx.hours)]
    /\ UNCHANGED <<user_version, hours, undolog, tx, out, before, ops, build>>

(* balance, line 242, run by another process *)
OtherBalance == OtherRead("balance")

(* tail, lines 171 and 194, run by another process *)
OtherTail == OtherRead("tail")

(* delete run by another process: its UPDATE reads the rows, then cannot  *)
(* take the write lock the open transaction holds                         *)
OtherDelete == OtherRead("delete")

(* the amount of every entry added: flags, not amounts, are at stake *)
ConcTime == 15

(* the commands that write the table, and the other process's commands *)
NextConc ==
    \/ \E date \in Dates : Add(date, ConcTime)
    \/ \E ids \in Selectors(IdInputs) : DeleteEntry(ids)
    \/ \E dates \in Selectors(Dates) : DeleteDate(dates)
    \/ DeleteExec
    \/ DeleteExecFail
    \/ DeleteCommit
    \/ DeleteCommitFail
    \/ OtherBalance
    \/ OtherTail
    \/ OtherDelete

SpecConc == InitLatest /\ [][NextConc]_vars

ExpectedDeleted(h, by, sel) ==
    [i \in DOMAIN h |->
        IF Selected(h[i], by, sel) THEN [h[i] EXCEPT !.deleted = TRUE] ELSE h[i]]

(* C17: while one process runs a delete of several ids or dates, what     *)
(* another process running balance, tail or delete reads from the same    *)
(* database has either none or all of the delete's flag changes, never    *)
(* only some of them.                                                     *)
CrossInvocationIsolation ==
    seen.cmd # "none" =>
        seen.hours \in {hours, ExpectedDeleted(hours, tx.by, tx.sel)}

CrossInvocationIsolationWitness ==
    /\ seen.cmd = "balance"
    /\ tx.active
    /\ Cardinality(tx.sel) >= 2
    /\ tx.hours # hours
    /\ tx.hours # ExpectedDeleted(hours, tx.by, tx.sel)
    /\ seen.hours = hours

(* ------------------- C18: build.rs, the latest known version ---------- *)

MaxDirEntries == 3
MaxDirId == 2

(* an entry of the migrations directory: a plain file, a sub-directory    *)
(* whose name starts with a number (the id), or a sub-directory whose     *)
(* name before the first '-' is not a number                              *)
DirEntries ==
    {[is_dir |-> FALSE, numeric |-> TRUE, id |-> 0]}
    \cup {[is_dir |-> TRUE, numeric |-> TRUE, id |-> k] : k \in 0..MaxDirId}
    \cup {[is_dir |-> TRUE, numeric |-> FALSE, id |-> 0]}

RECURSIVE Listings(_)
Listings(n) ==
    IF n = 0 THEN {<<>>}
    ELSE Listings(n - 1)
         \cup {Append(l, e) : l \in {x \in Listings(n - 1) : Len(x) = n - 1},
                              e \in DirEntries}

(* build.rs main, lines 8-11: read_dir returns the entries in any order *)
InitBuild ==
    /\ user_version = 0
    /\ hours = <<>>
    /\ undolog = <<>>
    /\ tx = NoTx
    /\ out = [cmd |-> "none", result |-> "Ok", by |-> "none", arg |-> {},
              n |-> 0, rows |-> <<>>, value |-> 0, prev |-> "other"]
    /\ before = [hours |-> <<>>, undolog |-> <<>>]
    /\ ops = <<>>
    /\ seen = NoSeen
    /\ \E l \in Listings(MaxDirEntries) :
         build = [pc |-> "loop", entries |-> l, pos |-> 1,
                  latest_migration |-> 0, emitted |-> 0]

(* one turn of the for loop, lines 12-31 *)
BuildStep ==
    /\ build.pc = "loop"
    /\ build.pos <= Len(build.entries)
    /\ LET entry == build.entries[build.pos]
       IN  build' =
             IF ~entry.is_dir
             THEN [build EXCEPT !.pos = build.pos + 1]
             ELSE IF ~entry.numeric
             THEN [build EXCEPT !.pc = "panic"]
             ELSE [build EXCEPT !.pos = build.pos + 1,
                                !.latest_migration =
                                    IF entry.id > build.latest_migration
                                    THEN entry.id
                                    ELSE build.latest_migration]
    /\ UNCHANGED <<user_version, hours, undolog, tx, out, before, ops, seen>>

(* fs::write of comp_const.rs, lines 33-45 *)
BuildWrite ==
    /\ build.pc = "loop"
    /\ build.pos > Len(build.entries)
    /\ build' = [build EXCEPT !.pc = "written",
                              !.emitted = build.latest_migration]
    /\ UNCHANGED <<user_version, hours, undolog, tx, out, before, ops, seen>>

(* the emitted line 40 is compiled: NonZeroUsize::new_unchecked(0) is     *)
(* undefined behaviour, the compiler may refuse the constant or keep it   *)
CompileConst ==
    /\ build.pc = "written"
    /\ \E outcome \in {"done", "rejected"} :
         /\ build.emitted >= 1 => outcome = "done"
         /\ build' = [build EXCEPT !.pc = outcome]
    /\ UNCHANGED <<user_version, hours, undolog, tx, out, before, ops, seen>>

NextBuild ==
    \/ BuildStep
    \/ BuildWrite
    \/ CompileConst

SpecBuild == InitBuild /\ [][NextBuild]_vars

SubDirIds(l) == {l[i].id : i \in {j \in DOMAIN l : l[j].is_dir}}

MaxOf(S) == CHOOSE x \in S : \A y \in S : y <= x

BuildScriptAccepts(l) == \A i \in DOMAIN l : l[i].is_dir => l[i].numeric

(* C18: the constant the gate uses is the largest number before the first *)
(* '-' over the sub-directories of the migrations directory, whatever the *)
(* listing order and whatever plain files there are, and it is a valid    *)
(* non-zero version for every directory the build script takes, one with  *)
(* no sub-directory included.                                             *)
LatestVersionIsMaxDirId ==
    (build.pc \in {"done", "rejected"} /\ BuildScriptAccepts(build.entries)) =>
        /\ build.pc = "done"
        /\ build.emitted >= 1
        /\ build.emitted = MaxOf(SubDirIds(build.entries))

(* ------------------- C19, C20: what a delete changes ------------------ *)

(* C19: a delete that succeeds changes nothing but the deleted flag of    *)
(* the entries its ids or dates select: no entry is added or removed, no  *)
(* id, date or time changes, no entry outside the selection changes; and  *)
(* no step ever changes a flag other than from false to true.             *)
DeleteFrame ==
    [][/\ Len(hours') >= Len(hours)
       /\ \A i \in DOMAIN hours :
             hours'[i].deleted # hours[i].deleted =>
                 (~hours[i].deleted /\ hours'[i].deleted)
       /\ (tx.active /\ ~tx'.active /\ out'.result = "Ok") =>
             /\ Len(hours') = Len(hours)
             /\ \A i \in DOMAIN hours :
                   /\ hours'[i].entry_id = hours[i].entry_id
                   /\ hours'[i].date = hours[i].date
                   /\ hours'[i].time = hours[i].time
                   /\ ~Selected(hours[i], tx.by, tx.sel) =>
                         hours'[i] = hours[i]]_vars

DeleteFrameWitness ==
    /\ out.cmd = "delete"
    /\ out.result = "Ok"
    /\ out.by = "date"
    /\ Len(before.hours) = Len(hours)
    /\ \E i \in DOMAIN hours : before.hours[i].deleted # hours[i].deleted
    /\ \E j \in DOMAIN hours :
          /\ ~Selected(hours[j], out.by, out.arg)
          /\ ~hours[j].deleted

(* the orders in which the for loop of line 253 / 265 can walk the set *)
Orders(S) ==
    {o \in [1..Cardinality(S) -> S] :
        \A i, j \in DOMAIN o : i # j => o[i] # o[j]}

(* the statements of one delete, run one after the other in this order *)
RECURSIVE ExecAll(_, _, _, _)
ExecAll(db, by, order, nu) ==
    IF order = <<>> THEN db
    ELSE ExecAll(IF by = "entry" THEN UpdateById(db, Head(order), nu)
                 ELSE UpdateByDate(db, Head(order), nu),
                 by, Tail(order), nu)

(* C20: the hours table a successful delete leaves is the same whatever   *)
(* the order in which the selected ids or dates are processed, and the    *)
(* same delete run again on that table leaves it as it is.                *)
DeleteOrderIndependent ==
    [][(tx.active /\ ~tx'.active /\ out'.result = "Ok") =>
         \A order \in Orders(tx.sel) :
            /\ ExecAll(Snapshot, tx.by, order, TRUE).hours = hours'
            /\ ExecAll([hours |-> hours', undolog |-> undolog'],
                       tx.by, order, TRUE).hours = hours']_vars

DeleteOrderIndependentWitness ==
    /\ out.cmd = "delete"
    /\ out.result = "Ok"
    /\ Cardinality(out.arg) >= 2
    /\ Cardinality({i \in DOMAIN hours :
                       /\ Selected(hours[i], out.by, out.arg)
                       /\ ~before.hours[i].deleted
                       /\ hours[i].deleted}) >= 2
====
